---- MODULE Spec2Model ----
(***************************************************************************)
(* Model of the linear research pipeline of ambitus-ai-models              *)
(* (src/src/pipeline/pipeline.py): safe_run and run_linear_pipeline.       *)
(*                                                                         *)
(* One run of run_linear_pipeline is a sequence of seven agent calls.  An  *)
(* action of the model is one agent call together with the orchestrator    *)
(* code that follows it up to the next call (or up to the return).         *)
(*                                                                         *)
(* Python values are abstracted to records of one shape (PyVal): the tag   *)
(* (None, dict, list, str), the key set of a dict, the list held under     *)
(* "domains" (dict) or the elements (list), whether the content passes the *)
(* stage's pydantic model, and the report fields.  Scores are in tenths.   *)
(***************************************************************************)
EXTENDS Integers, Sequences, FiniteSets, TLC

VARIABLES pc, company_name, selected_domain, invoked, raw, out, domain, result

\* the validators of src/src/utils/validation.py, applied to one input:
\* the contract, the value validated, the result, the data of the first pass
VARIABLES v_contract, v_input, v_result, v_first

\* the interactive runner of src/src/cli/tui/individual_agent_runner.py: the
\* fields of the IndividualAgentRunner object, and the handler in progress
\* with the stage executions it has made so far
VARIABLES runner, handler

\* the last domain selection prompt (the list surfaced and the answer), and
\* the number of lines of the styled text of each stored output
VARIABLES selection, lines

\* concurrent calls of run_linear_pipeline: the locals of each call
VARIABLES runs

\* one call of safe_run followed by the check of its result: the stage, the
\* response of the agent, the payload, and where the orchestrator goes
VARIABLES call

\* one request to an endpoint of src/src/api/routes: the route, the request,
\* what the agent returned and the response
VARIABLES api

pipelineVars ==
    <<pc, company_name, selected_domain, invoked, raw, out, domain, result>>

validationVars == <<v_contract, v_input, v_result, v_first>>

runnerVars == <<runner, handler, selection, lines>>

concurrentVars == <<runs>>

callVars == <<call>>

apiVars == <<api>>

vars ==
    <<pipelineVars, validationVars, runnerVars, concurrentVars, callVars,
      apiVars>>

(***************************************************************************)
(* Bounds                                                                  *)
(***************************************************************************)
\* longest opportunity list an IndustryAnalysis response carries
MaxDomains == 3

(***************************************************************************)
(* Stages, in the textual order of the calls in run_linear_pipeline        *)
(***************************************************************************)
StageOrder ==
    << "CompanyResearch", "IndustryAnalysis", "MarketData",
       "CompetitiveLandscape", "GapAnalysis", "OpportunityAnalysis",
       "ReportSynthesis" >>

Stages == { StageOrder[i] : i \in 1..Len(StageOrder) }

StageIndex(s) == CHOOSE i \in 1..Len(StageOrder) : StageOrder[i] = s

(***************************************************************************)
(* Python values                                                           *)
(***************************************************************************)
\* a domain value: None, a str, or one opportunity {domain, score}
NoDomain == [tag |-> "None", s |-> "", score |-> 0]

Str(s) == [tag |-> "str", s |-> s, score |-> 0]

Opp(d, sc) == [tag |-> "opp", s |-> d, score |-> sc]

PyVal(tag, keys, items, valid, title, placeholder) ==
    [tag |-> tag, keys |-> keys, items |-> items, valid |-> valid,
     title |-> title, placeholder |-> placeholder]

None == PyVal("None", {}, <<>>, FALSE, "", FALSE)

Text == PyVal("str", {}, <<>>, FALSE, "", FALSE)

DictV(keys, items, valid) == PyVal("dict", keys, items, valid, "", FALSE)

ListV(items, valid) == PyVal("list", {}, items, valid, "", FALSE)

\* x.get("domains", []) on a dict
GetDomains(v) == IF "domains" \in v.keys THEN v.items ELSE <<>>

\* Python truthiness of a str-or-None argument
Truthy(d) == d.tag # "None" /\ ~(d.tag = "str" /\ d.s = "")

(***************************************************************************)
(* Agent responses.  kind "raise": the agent call raises; kind "nondict":  *)
(* it returns something without .keys() (None, a list, a str); kind        *)
(* "dict": it returns the dict val, whose values under "result", "data"    *)
(* and "raw_response" are the fields of those names.                       *)
(***************************************************************************)
Response(kind, val, res, data, rawr, success) ==
    [kind |-> kind, val |-> val, result |-> res, data |-> data,
     raw_response |-> rawr, success |-> success]

Raises == Response("raise", None, None, None, None, FALSE)

NonDict == Response("nondict", None, None, None, None, FALSE)

\* {"success": True, "data": p, "raw_response": "<text>"}
OkData(p) ==
    Response("dict", DictV({"success", "data", "raw_response"}, <<>>, FALSE),
             None, p, Text, TRUE)

\* {"result": p}
OkResult(p) ==
    Response("dict", DictV({"result"}, <<>>, FALSE), p, None, None, TRUE)

\* {"success": False, "error": "timeout"}
FailNoTrace ==
    Response("dict", DictV({"success", "error"}, <<>>, FALSE),
             None, None, None, FALSE)

\* {"success": False, "error": str(e), "raw_response": None}
FailTraceNone ==
    Response("dict", DictV({"success", "error", "raw_response"}, <<>>, FALSE),
             None, None, None, FALSE)

\* {"success": False, "error": "Invalid JSON response from agent",
\*  "raw_response": "<text>"}
FailTraceText ==
    Response("dict", DictV({"success", "error", "raw_response"}, <<>>, FALSE),
             None, None, Text, FALSE)

\* {"success": False, "error": ..., "data": None}
FailDataNone ==
    Response("dict", DictV({"success", "error", "data"}, <<>>, FALSE),
             None, None, None, FALSE)

\* run_market_data_agent: what it returns for each outcome of the LLM call
run_market_data_agent(outcome, market_data) ==
    CASE outcome = "exception" -> FailTraceNone
      [] outcome = "bad_json"  -> FailTraceText
      [] OTHER                 -> OkData(market_data)

\* the stage agent reported a failure (it raised, or said success = False)
AgentFailed(resp) == resp.kind = "raise" \/ (resp.kind = "dict" /\ ~resp.success)

(***************************************************************************)
(* safe_run: the stage payload the orchestrator sees                       *)
(***************************************************************************)
\* the normalisation with "data" looked up before "result"
SafeRunDataFirst(resp) ==
    IF resp.kind = "raise" THEN None
    ELSE IF resp.kind = "nondict" THEN None
    ELSE IF "data" \in resp.val.keys THEN resp.data
    ELSE IF "result" \in resp.val.keys THEN resp.result
    ELSE IF "raw_response" \in resp.val.keys THEN resp.raw_response
    ELSE resp.val

safe_run(resp) ==
    IF resp.kind = "raise" THEN None
    ELSE IF resp.kind = "nondict" THEN None   \* raw_output.keys() raises
    ELSE IF "result" \in resp.val.keys THEN resp.result
    ELSE IF "data" \in resp.val.keys THEN resp.data
    ELSE IF "raw_response" \in resp.val.keys THEN resp.raw_response
    ELSE resp.val

\* the keys of the dict safe_run returns: {"result": ...} on every path
safe_run_keys(resp) == {"result"}

\* the check `x_output["result"] is None` after each of the first six calls
IsNone(v) == v.tag = "None"

(***************************************************************************)
(* Inputs: caller arguments and the responses the agents can give          *)
(***************************************************************************)
CompanyNames == {"Acme"}

\* selected_domain: omitted (None), "", a domain of the list, a foreign one
Overrides == {NoDomain, Str(""), Str("B"), Str("X")}

Opportunities == {Opp("A", 4), Opp("B", 9), Opp("C", 9)}

DomainLists ==
    UNION { [1..n -> Opportunities] : n \in 0..MaxDomains }

CompanyProfile == DictV({"name", "industry"}, <<>>, TRUE)

\* json.loads(final_message): a conforming dict, a dict that breaks the
\* MarketData model, or JSON null
MarketDataValues ==
    {DictV({"market_size_usd"}, <<>>, TRUE),
     DictV({"market_size_usd"}, <<>>, FALSE), None}

\* a MarketGap list; valid = FALSE stands for a non-conforming record
GapLists == {ListV(<<>>, TRUE), ListV(<<>>, FALSE)}

ReportKeys == {"pdf_content", "report_title", "generated_at"}

ReportV(keys, title, placeholder) ==
    PyVal("dict", keys, <<>>, TRUE, title, placeholder)

\* a report returned directly, without the {"data": ...} envelope
Direct(v) == Response("dict", v, None, None, None, TRUE)

AgentResponses(stage) ==
    CASE stage = "CompanyResearch" ->
           {Raises, FailNoTrace, FailTraceNone, OkData(CompanyProfile)}
      [] stage = "IndustryAnalysis" ->
           {Raises, FailNoTrace, FailTraceText,
            OkResult(DictV({"note"}, <<>>, FALSE))}
           \cup { OkData(ListV(ds, TRUE)) : ds \in DomainLists }
           \cup { OkResult(DictV({"domains"}, ds, FALSE)) : ds \in DomainLists }
      [] stage = "MarketData" ->
           { run_market_data_agent(o, md) :
               o \in {"exception", "bad_json", "ok"}, md \in MarketDataValues }
      [] stage = "CompetitiveLandscape" ->
           {Raises, FailNoTrace, OkData(ListV(<<>>, TRUE))}
      [] stage = "GapAnalysis" ->
           {Raises, FailNoTrace} \cup { OkData(g) : g \in GapLists }
      [] stage = "OpportunityAnalysis" ->
           {Raises, NonDict, FailNoTrace, OkData(ListV(<<>>, TRUE))}
      [] OTHER ->
           {Raises, NonDict, FailNoTrace, FailDataNone,
            OkData(ReportV(ReportKeys, "Acme Research", FALSE)),
            OkData(ReportV(ReportKeys \cup {"placeholder"}, "Acme Research", FALSE)),
            OkData(ReportV({"report_title"}, "Acme Research", FALSE)),
            Direct(ReportV(ReportKeys, "Acme Research", FALSE))}

(***************************************************************************)
(* The record run_linear_pipeline returns                                  *)
(***************************************************************************)
NoResult ==
    [success |-> FALSE, keys |-> {}, error |-> "", details |-> "",
     report_title |-> "", placeholder |-> FALSE]

\* {"success": False, "error": msg}
Failure(msg) ==
    [success |-> FALSE, keys |-> {"success", "error"}, error |-> msg,
     details |-> "", report_title |-> "", placeholder |-> FALSE]

\* {"success": False, "error": "Report synthesis failed.", "details": str(e)}
SynthesisFailure(e) ==
    [success |-> FALSE, keys |-> {"success", "error", "details"},
     error |-> "Report synthesis failed.", details |-> e,
     report_title |-> "", placeholder |-> FALSE]

\* {"success": True, "pdf_content": .., "report_title": ..,
\*  "generated_at": .., "placeholder": final_data.get("placeholder", True)}
Success(final_data) ==
    [success |-> TRUE,
     keys |-> {"success", "pdf_content", "report_title", "generated_at",
               "placeholder"},
     error |-> "", details |-> "", report_title |-> final_data.title,
     placeholder |-> IF "placeholder" \in final_data.keys
                     THEN final_data.placeholder ELSE TRUE]

\* the message of the early return after each of the first six calls
FailureMessage(stage) ==
    CASE stage = "CompanyResearch"      -> "Company research failed."
      [] stage = "IndustryAnalysis"     -> "Industry analysis failed."
      [] stage = "MarketData"           -> "Market data collection failed."
      [] stage = "CompetitiveLandscape" -> "Competitive landscape analysis failed."
      [] stage = "GapAnalysis"          -> "Gap analysis failed."
      [] OTHER                          -> "Opportunity analysis failed."

\* NextStage with the call after the next one taken instead (a skipped stage)
NextStageSkip(stage) ==
    IF StageIndex(stage) + 2 <= Len(StageOrder)
    THEN StageOrder[StageIndex(stage) + 2]
    ELSE StageOrder[Len(StageOrder)]

\* the call that follows a stage in the text of run_linear_pipeline
NextStage(stage) == StageOrder[StageIndex(stage) + 1]

\* Call with the CompetitiveLandscape input built from the first listed
\* domain again instead of the domain selected once
CallFirstListed(stage, company, d, args) ==
    [stage |-> stage, company |-> company,
     domain |-> IF stage = "CompetitiveLandscape"
                THEN GetDomains(out["IndustryAnalysis"])[1] ELSE d,
     args |-> args]

\* one entry of the call log: the agent called and what it was called with
Call(stage, company, d, args) ==
    [stage |-> stage, company |-> company, domain |-> d, args |-> args]

\* stages whose output contract is a list of records (ListValidator)
ListStages ==
    {"IndustryAnalysis", "CompetitiveLandscape", "GapAnalysis",
     "OpportunityAnalysis"}

\* whether the stage's output validator reports valid: ListValidator wants a
\* list whose items pass the item model, BaseValidator a dict that passes the
\* model, ReportSynthesisValidator the three required fields
validate_output(stage, v) ==
    IF stage \in ListStages THEN v.tag = "list" /\ v.valid
    ELSE IF stage = "ReportSynthesis"
    THEN v.tag = "dict" /\ ReportKeys \subseteq v.keys
    ELSE v.tag = "dict" /\ v.valid

\* a stage that has not been called yet
Pending == Response("pending", None, None, None, None, FALSE)

Unset == PyVal("unset", {}, <<>>, FALSE, "", FALSE)

\* Gate with a failed stage called again instead of returning
GateRetry(stage, o) == IF IsNone(o) THEN stage ELSE NextStage(stage)

\* where control goes after `if x_output["result"] is None: return {...}`
Gate(stage, o) == IF IsNone(o) THEN "returned" ELSE NextStage(stage)

\* SelectDomain with the override honoured only when the list offers it
SelectDomainListed(override, domains) ==
    IF Truthy(override) /\ \E i \in 1..Len(domains) : domains[i].s = override.s
    THEN override ELSE domains[1]

\* domain = selected_domain or domains[0]
SelectDomain(override, domains) ==
    IF Truthy(override) THEN override ELSE domains[1]

(***************************************************************************)
(* Validators: src/src/utils/validation.py over src/src/utils/models.py    *)
(***************************************************************************)
\* longest list of a validated input, and longest List[str] field
MaxItems == 2

\* a JSON value as a field holds it; fractions are kept in tenths
JsonValue(t, s, n, l) == [t |-> t, s |-> s, n |-> n, l |-> l]

JStr(x) == JsonValue("str", x, 0, <<>>)

JNum(x) == JsonValue("num", "", x, <<>>)

JList(xs) == JsonValue("list", "", 0, xs)

JNull == JsonValue("null", "", 0, <<>>)

\* the value handed to a validator: a dict (one record), a list of dicts,
\* or something that is neither
Payload(tag, items) == [tag |-> tag, items |-> items]

NoData == Payload("None", <<>>)

Scalar == Payload("str", <<>>)

\* the annotated fields of the pydantic models
Schema(model) ==
    CASE model = "Company" ->
           [name |-> "str", industry |-> "str", description |-> "str",
            products |-> "List[str]", headquarters |-> "str",
            sources |-> "List[str]"]
      [] model = "IndustryOpportunity" ->
           [domain |-> "str", score |-> "float", rationale |-> "str",
            sources |-> "List[str]"]
      [] model = "CompetitiveLandscape" ->
           [competitor |-> "str", product |-> "str",
            market_share |-> "float", note |-> "str",
            sources |-> "List[str]"]
      [] model = "MarketData" ->
           [market_size_usd |-> "float", CAGR |-> "float",
            key_drivers |-> "List[str]", sources |-> "List[str]"]
      [] model = "MarketGap" ->
           [gap |-> "str", impact |-> "str", evidence |-> "str",
            source |-> "List[str]"]
      [] model = "Opportunity" ->
           [title |-> "str", priority |-> "str", description |-> "str",
            sources |-> "List[str]"]

\* what a field of the annotated type accepts; the strings of this model
\* are never numerals, so none of them converts to a float
Accepts(type, v) ==
    CASE type = "str" -> v.t = "str"
      [] type = "float" -> v.t = "num"
      [] type = "List[str]" -> v.t = "list"

\* the fields model_validate reports: the missing ones and the ones whose
\* value the annotation does not accept
Violations(model, rec) ==
    { f \in DOMAIN Schema(model) :
        ~(f \in DOMAIN rec /\ Accepts(Schema(model)[f], rec[f])) }

RECURSIVE Dedup(_)
Dedup(xs) ==
    IF xs = <<>> THEN <<>>
    ELSE LET front == Dedup(SubSeq(xs, 1, Len(xs) - 1))
             last == xs[Len(xs)]
         IN IF \E i \in 1..Len(front) : front[i] = last
            THEN front ELSE Append(front, last)

\* model_dump with every List[str] field de-duplicated
ModelDumpDedup(model, rec) ==
    [f \in DOMAIN Schema(model) |->
        IF rec[f].t = "list" THEN JList(Dedup(rec[f].l)) ELSE rec[f]]

\* model_dump of the validated instance: the model's fields, nothing else
model_dump(model, rec) == [f \in DOMAIN Schema(model) |-> rec[f]]

\* the dict a validator returns; errors are the (item, field) pairs the
\* error text names, item being the position of the item that raised
ValidationResult(valid, data, error, errors) ==
    [valid |-> valid, data |-> data, error |-> error, errors |-> errors]

NotValidated == ValidationResult(FALSE, NoData, "not validated", {})

\* BaseValidator.validate
BaseValidator_validate(model, data) ==
    IF data.tag # "dict"
    THEN ValidationResult(FALSE, NoData, "ValidationError", {})
    ELSE LET rec == data.items[1] IN
         IF Violations(model, rec) = {}
         THEN ValidationResult(TRUE,
                  Payload("dict", <<model_dump(model, rec)>>), "None", {})
         ELSE ValidationResult(FALSE, NoData, "ValidationError",
                  { <<1, f>> : f \in Violations(model, rec) })

\* ListValidator.validate_output: the comprehension raises at the first
\* item model_validate rejects
ListValidator_validate_output(item_model, data) ==
    IF data.tag # "list"
    THEN ValidationResult(FALSE, NoData, "Expected list", {})
    ELSE LET invalid == { i \in 1..Len(data.items) :
                            Violations(item_model, data.items[i]) # {} }
         IN
         IF invalid = {}
         THEN ValidationResult(TRUE,
                  Payload("list", [i \in 1..Len(data.items) |->
                                     model_dump(item_model, data.items[i])]),
                  "None", {})
         ELSE LET first == CHOOSE i \in invalid : \A j \in invalid : i <= j
              IN ValidationResult(FALSE, NoData, "ValidationError",
                     { <<first, f>> :
                         f \in Violations(item_model, data.items[first]) })

\* the output contract of each validator class: its model, and whether the
\* output validator is a ListValidator
Contracts ==
    [CompanyValidator |-> [model |-> "Company", list |-> FALSE],
     IndustryAnalysisValidator |->
         [model |-> "IndustryOpportunity", list |-> TRUE],
     MarketDataValidator |-> [model |-> "MarketData", list |-> FALSE],
     CompetitiveLandscapeValidator |->
         [model |-> "CompetitiveLandscape", list |-> TRUE],
     MarketGapAnalysisValidator |-> [model |-> "MarketGap", list |-> TRUE],
     OpportunityValidator |-> [model |-> "Opportunity", list |-> TRUE]]

\* CompanyValidator.validate and the validate_output of the other classes
Validate(contract, data) ==
    IF Contracts[contract].list
    THEN ListValidator_validate_output(Contracts[contract].model, data)
    ELSE BaseValidator_validate(Contracts[contract].model, data)

\* the lists of at most n elements of S
RECURSIVE ListsOf(_, _)
ListsOf(S, n) ==
    IF n = 0 THEN {<<>>}
    ELSE LET shorter == ListsOf(S, n - 1) IN
         shorter \cup { Append(q, x) : q \in { r \in shorter : Len(r) = n - 1 },
                                       x \in S }

\* a dict without one of its keys, and a dict with a key no model declares
Drop(rec, key) == [f \in DOMAIN rec \ {key} |-> rec[f]]

WithExtra(rec) ==
    [f \in DOMAIN rec \cup {"extra"} |->
        IF f = "extra" THEN JStr("x") ELSE rec[f]]

StrLists(S) == { JList(l) : l \in ListsOf(S, MaxItems) }

OneSource == JList(<<"u1">>)

\* the dicts offered to each model: well typed ones, with values inside and
\* outside the documented ranges, wrongly typed ones and incomplete ones
Records(model) ==
    CASE model = "Company" ->
           LET full == { [name |-> n, industry |-> JStr("tech"),
                          description |-> JStr("d"), products |-> p,
                          headquarters |-> JStr("hq"), sources |-> s] :
                         n \in {JStr("Acme"), JNum(1), JNull},
                         p \in StrLists({"p", "q"}) \cup {JStr("p")},
                         s \in StrLists({"u1", "u2"}) \cup {JNull} }
           IN full \cup { Drop(r, "name") : r \in full }
                   \cup { Drop(r, "sources") : r \in full }
                   \cup { WithExtra(r) : r \in full }
      [] model = "IndustryOpportunity" ->
           LET full == { [domain |-> JStr("A"), score |-> sc,
                          rationale |-> JStr("r"), sources |-> OneSource] :
                         sc \in {JNum(-1), JNum(5), JNum(15), JStr("high")} }
           IN full \cup { Drop(r, "domain") : r \in full }
      [] model = "CompetitiveLandscape" ->
           { [competitor |-> JStr("c"), product |-> JStr("p"),
              market_share |-> ms, note |-> n, sources |-> OneSource] :
             ms \in {JNum(-1), JNum(3), JNum(12)}, n \in {JStr("n"), JNull} }
      [] model = "MarketData" ->
           LET full == { [market_size_usd |-> m, CAGR |-> g,
                          key_drivers |-> JList(<<"k">>),
                          sources |-> OneSource] :
                         m \in {JNum(-1), JNum(0), JNum(10), JStr("big")},
                         g \in {JNum(1), JNull} }
           IN full \cup { Drop(r, "key_drivers") : r \in full }
      [] model = "MarketGap" ->
           { [gap |-> JStr("g"), impact |-> i, evidence |-> e,
              source |-> OneSource] :
             i \in {JStr("high"), JStr("critical"), JNum(1)},
             e \in {JStr("e"), JNull} }
      [] model = "Opportunity" ->
           { [title |-> t, priority |-> p, description |-> JStr("d"),
              sources |-> OneSource] :
             t \in {JStr("t"), JNull},
             p \in {JStr("high"), JStr("medium"), JStr("low"),
                    JStr("urgent")} }

\* what a caller may hand to a validator
ValidatorInputs(contract) ==
    LET recs == Records(Contracts[contract].model) IN
    { Payload("dict", <<r>>) : r \in recs }
      \cup { Scalar }
      \cup IF Contracts[contract].list
           THEN { Payload("list", l) : l \in ListsOf(recs, MaxItems) }
           ELSE { Payload("list", <<>>) }

\* no validator is in use
ValidationIdle ==
    /\ v_contract = "idle"
    /\ v_input = NoData
    /\ v_result = NotValidated
    /\ v_first = NoData

(***************************************************************************)
(* The interactive runner: IndividualAgentRunner of                        *)
(* src/src/cli/tui/individual_agent_runner.py.  Its agents are the stages  *)
(* of StageOrder, in that order; current_agent_index counts from 0.        *)
(***************************************************************************)
Tabs == <<"input", "output", "description">>

TabIndex(t) == CHOOSE i \in 1..Len(Tabs) : Tabs[i] = t

\* list(self.agents.keys())[index]
AgentAt(index) == StageOrder[index + 1]

\* the fields __init__ sets
NewRunner ==
    [current_agent_index |-> 0, current_tab |-> "input",
     agent_outputs |-> [s \in Stages |-> Pending],
     selected_domain |-> NoDomain, output_scroll_offset |-> 0]

\* the handler that ran last: its name, the index of the agent the chain
\* loop runs next (0 when no chain is in progress), the executions it made,
\* and agent_outputs as it was when the handler started
HandlerState(name, pos, log, before) ==
    [name |-> name, pos |-> pos, log |-> log, before |-> before]

NoHandler == HandlerState("none", 0, <<>>, [s \in Stages |-> Pending])

\* no selection prompt shown yet; answer 0 is the Enter key
NoSelection == [offered |-> <<>>, answer |-> 0]

NoLines == [s \in Stages |-> 0]

RunnerIdle ==
    /\ runner = NewRunner
    /\ handler = NoHandler
    /\ selection = NoSelection
    /\ lines = NoLines

\* what the operator types at a Prompt.ask
CompanyPrompts == {"", "Acme"}

DomainPrompts == {Str(""), Str("B")}

\* the agent_input dict: its company_name and its domain, NoDomain when
\* the dict has no "domain" key
AgentInput(company, d) == [company_name |-> company, domain |-> d]

\* the prompts a stage shows: the company name for the first stage, the
\* confirmation of the selected domain when there is one, the domain
PromptedCompany(stage) ==
    IF stage = "CompanyResearch" THEN CompanyPrompts ELSE {""}

PromptedConfirm(r, stage) ==
    IF stage = "MarketData" /\ Truthy(r.selected_domain) THEN BOOLEAN
    ELSE {FALSE}

PromptedDomain(stage) ==
    IF stage \in {"MarketData", "CompetitiveLandscape"} THEN DomainPrompts
    ELSE {Str("")}

\* _collect_agent_input
collect_agent_input(r, stage, company, use_selected, typed) ==
    CASE stage = "CompanyResearch" -> AgentInput(company, NoDomain)
      [] stage = "MarketData" ->
           IF Truthy(r.selected_domain) /\ use_selected
           THEN AgentInput("", r.selected_domain)
           ELSE AgentInput("", IF Truthy(typed) THEN typed ELSE NoDomain)
      [] stage = "CompetitiveLandscape" ->
           IF Truthy(r.selected_domain) THEN AgentInput("", NoDomain)
           ELSE AgentInput("", IF Truthy(typed) THEN typed ELSE NoDomain)
      [] OTHER -> AgentInput("", NoDomain)

\* output.get("success") on a stored or returned dict
GetSuccess(output) == "success" \in output.val.keys /\ output.success

\* truthiness of output.get("data")
DataTruthy(v) ==
    CASE v.tag = "None" -> FALSE
      [] v.tag = "dict" -> v.keys # {}
      [] v.tag = "list" -> v.items # <<>>
      [] OTHER -> TRUE

\* _get_company_data_from_previous and its five siblings return data
PreviousData(r, stage) ==
    /\ r.agent_outputs[stage].kind = "dict"
    /\ GetSuccess(r.agent_outputs[stage])
    /\ "data" \in r.agent_outputs[stage].val.keys
    /\ DataTruthy(r.agent_outputs[stage].data)

\* the domain _simulate_agent_execution hands to the backing agent
AgentDomain(r, stage, input) ==
    CASE stage = "MarketData" ->
           IF Truthy(r.selected_domain) THEN r.selected_domain
           ELSE IF input.domain.tag = "None" THEN Str("") ELSE input.domain
      [] stage = "CompetitiveLandscape" -> r.selected_domain
      [] OTHER -> NoDomain

\* _simulate_agent_execution reaches the call of the backing agent: no
\* ValueError for a missing input is raised before it
CanCall(r, stage, input) ==
    CASE stage = "IndustryAnalysis" -> PreviousData(r, "CompanyResearch")
      [] stage = "MarketData" -> Truthy(AgentDomain(r, stage, input))
      [] stage = "CompetitiveLandscape" -> Truthy(r.selected_domain)
      [] stage = "GapAnalysis" ->
           /\ PreviousData(r, "CompanyResearch")
           /\ PreviousData(r, "CompetitiveLandscape")
           /\ PreviousData(r, "MarketData")
      [] stage = "OpportunityAnalysis" -> PreviousData(r, "GapAnalysis")
      [] OTHER -> TRUE

\* {"agent_name": .., "execution_status": "failed", "success": False,
\*  "error": str(e), "timestamp": ..}
ExecutionFailed ==
    Response("dict",
             DictV({"agent_name", "execution_status", "success", "error",
                    "timestamp"}, <<>>, FALSE),
             None, None, None, FALSE)

\* _simulate_agent_execution, resp being what the backing agent does when
\* it is called
simulate_agent_execution(r, stage, input, resp) ==
    IF ~CanCall(r, stage, input) \/ resp.kind = "raise"
    THEN ExecutionFailed ELSE resp

\* _validate_output: is_valid.  CompanyValidator has no validate_output, so
\* the call raises AttributeError and the except branch answers
runner_validate_output(stage, output) ==
    /\ output.kind = "dict"
    /\ GetSuccess(output)
    /\ "data" \in output.val.keys
    /\ ~IsNone(output.data)
    /\ stage # "CompanyResearch"
    /\ validate_output(stage, output.data)

\* one entry of the execution log of a handler: the stage, whether the
\* backing agent was called and with which domain, what the gate said, and
\* what the stage had to run on (the input collected, the selected domain,
\* the stages whose stored output has data)
Execution(r, stage, input, output) ==
    [stage |-> stage, called |-> CanCall(r, stage, input),
     domain |-> AgentDomain(r, stage, input),
     valid |-> runner_validate_output(stage, output),
     input |-> input,
     selected_domain |-> r.selected_domain,
     upstream |-> { s \in Stages : PreviousData(r, s) }]

\* _handle_domain_selection with the operator picking entry pick
handle_domain_selection(r, opportunities, pick) ==
    IF opportunities.tag # "list" \/ opportunities.items = <<>> THEN r
    ELSE [r EXCEPT !.selected_domain = Str(opportunities.items[pick].s)]

\* the picks the selection prompt accepts
Picks(opportunities) ==
    IF opportunities.tag # "list" \/ opportunities.items = <<>> THEN {1}
    ELSE 1..Len(opportunities.items)

\* the next agent with a wrap from the last one to the first
MoveToNextAgentWrap(r) ==
    [r EXCEPT !.current_agent_index = (@ + 1) % Len(StageOrder)]

\* _move_to_next_agent: if index < len(self.agents) - 1: index += 1
move_to_next_agent(r) ==
    [r EXCEPT !.current_agent_index =
        IF @ < Len(StageOrder) - 1 THEN @ + 1 ELSE @]

\* _move_to_previous_agent: if index > 0: index -= 1
move_to_previous_agent(r) ==
    [r EXCEPT !.current_agent_index = IF @ > 0 THEN @ - 1 ELSE @]

\* _switch_tab_next: tabs[(current_index + 1) % len(tabs)]
switch_tab_next(r) ==
    [r EXCEPT !.current_tab = Tabs[(TabIndex(@) % Len(Tabs)) + 1]]

\* _switch_tab_prev: tabs[(current_index - 1) % len(tabs)]
switch_tab_prev(r) ==
    [r EXCEPT !.current_tab =
        Tabs[((TabIndex(@) + Len(Tabs) - 2) % Len(Tabs)) + 1]]

\* Prompt.ask(..., default="1"): entry 1 when the operator presses Enter
DefaultPick == 1

\* the answers the selection prompt accepts: 0 is the Enter key
Answers(opportunities) == {0} \cup Picks(opportunities)

\* int(selection), the default standing in for an empty answer
PromptIndex(answer) == IF answer = 0 THEN DefaultPick ELSE answer

\* the else branch of the gate in both run handlers forgets the stored
\* output of the stage
RejectedForget(r, stage) == [r EXCEPT !.agent_outputs[stage] = Pending]

\* the else branch of the gate in both run handlers: console output only
Rejected(r, stage) == r

\* the assignment without the gate: whatever came back is stored
StoreUngated(r, stage, output, valid) ==
    [r EXCEPT !.agent_outputs[stage] = output]

\* if validation_result["is_valid"]: self.agent_outputs[name] = output
Store(r, stage, output, valid) ==
    IF valid THEN [r EXCEPT !.agent_outputs[stage] = output]
    ELSE Rejected(r, stage)

\* self.output_lines_per_page
LinesPerPage == 20

\* the step of _scroll_output_up and _scroll_output_down
ScrollStep == 5

\* len(styled_output.split('\n')): it grows with the lists of the data; a
\* text that fits a page and two that do not
LineCounts == {7, 24, 30}

\* the text of _style_report_data has a fixed number of lines
ReportLines == 9

StyledLines(stage) ==
    IF stage = "ReportSynthesis" THEN {ReportLines} ELSE LineCounts

Max(a, b) == IF a >= b THEN a ELSE b

Min(a, b) == IF a <= b THEN a ELSE b

\* the output tab has a styled text to page through: the agent has a stored
\* output with success and data
Displayable(r, stage) ==
    /\ r.agent_outputs[stage] # Pending
    /\ GetSuccess(r.agent_outputs[stage])
    /\ DataTruthy(r.agent_outputs[stage].data)

\* _scroll_output_up
scroll_output_up(r) ==
    IF r.current_tab = "output"
    THEN [r EXCEPT !.output_scroll_offset = Max(0, @ - ScrollStep)]
    ELSE r

\* _scroll_output_down, total being the line count of the styled text
scroll_output_down(r, total) ==
    IF r.current_tab = "output" /\ Displayable(r, AgentAt(r.current_agent_index))
    THEN [r EXCEPT !.output_scroll_offset =
             Min(Max(0, total - LinesPerPage), @ + ScrollStep)]
    ELSE r

\* _show_full_output
show_full_output(r) ==
    IF r.current_tab = "output"
       /\ r.agent_outputs[AgentAt(r.current_agent_index)] # Pending
    THEN [r EXCEPT !.output_scroll_offset = 0]
    ELSE r

\* _create_output_display: the slice output_lines[first:last] it shows,
\* lines being numbered from 0 and last exclusive
Window(r, total) ==
    IF total <= LinesPerPage THEN [first |-> 0, last |-> total]
    ELSE [first |-> r.output_scroll_offset,
          last |-> Min(r.output_scroll_offset + LinesPerPage, total)]

\* the chain loop without its break: the next agent whatever the gate said
AfterGateContinue(valid, i) == IF i < Len(StageOrder) THEN i + 1 ELSE 0

\* where the loop of _run_agent_chain goes after agent i: on to the next
\* agent, or out of the loop (break, or the list is exhausted)
AfterGate(valid, i) == IF valid /\ i < Len(StageOrder) THEN i + 1 ELSE 0

(***************************************************************************)
(* Concurrent calls of run_linear_pipeline: each call has its own locals   *)
(***************************************************************************)
Runs == {1, 2}

\* the locals of one call: where it is, its selected_domain argument, its
\* domain, the calls it made, the responses it got, its stage payloads and
\* what it returned
IdleRun ==
    [pc |-> "idle", selected_domain |-> NoDomain, domain |-> NoDomain,
     invoked |-> <<>>, raw |-> [s \in Stages |-> Pending],
     out |-> [s \in Stages |-> Unset], result |-> NoResult]

NewRun(override) ==
    [IdleRun EXCEPT !.pc = "CompanyResearch", !.selected_domain = override]

ConcurrentIdle == runs = [r \in Runs |-> IdleRun]

\* no call of safe_run under study
NoCall == [stage |-> "none", resp |-> Raises, payload |-> None, pc |-> "idle"]

CallIdle == call = NoCall

(***************************************************************************)
(* The endpoints of src/src/api/routes                                     *)
(***************************************************************************)
\* what an agent returns: {"success": .., "data": ..} or {"success": False,
\* "error": ..}
AgentResult(success, data) == [success |-> success, data |-> data]

NoAgentResult == AgentResult(FALSE, NoData)

\* a response of the response model of the route (body "model": success,
\* data, error) or the answer to an HTTPException (body "detail")
ApiResponse(status, body, success, data, error) ==
    [status |-> status, body |-> body, success |-> success, data |-> data,
     error |-> error]

NoResponse == ApiResponse(0, "none", FALSE, NoData, "None")

ModelResponse(success, data, error) ==
    ApiResponse(200, "model", success, data, error)

HTTPException(status) == ApiResponse(status, "detail", FALSE, NoData, "None")

\* the outcome of a route: whether the agent was run, and the response
Outcome(ran, response) == [ran |-> ran, response |-> response]

\* research_company answering agent_result without validating its data
ResearchCompanyUnvalidated(mcp_up, agent_result) ==
    IF ~mcp_up THEN Outcome(FALSE, HTTPException(503))
    ELSE IF ~agent_result.success
    THEN Outcome(TRUE, ModelResponse(FALSE, NoData, "agent"))
    ELSE Outcome(TRUE, ModelResponse(TRUE, agent_result.data, "None"))

\* research_company
research_company(mcp_up, agent_result) ==
    IF ~mcp_up THEN Outcome(FALSE, HTTPException(503))
    ELSE IF ~agent_result.success
    THEN Outcome(TRUE, ModelResponse(FALSE, NoData, "agent"))
    ELSE LET validation_result ==
                 BaseValidator_validate("Company", agent_result.data)
         IN
         IF ~validation_result.valid
         THEN Outcome(TRUE, ModelResponse(FALSE, NoData,
                                          validation_result.error))
         ELSE Outcome(TRUE, ModelResponse(TRUE, validation_result.data,
                                          "None"))

\* analyze_industry_opportunities
analyze_industry_opportunities(company_data, agent_result) ==
    IF ~BaseValidator_validate("Company", company_data).valid
    THEN Outcome(FALSE, ModelResponse(FALSE, NoData, "Invalid input data"))
    ELSE IF ~agent_result.success
    THEN Outcome(TRUE, ModelResponse(FALSE, NoData, "agent"))
    ELSE LET output_validation ==
                 ListValidator_validate_output("IndustryOpportunity",
                                               agent_result.data)
         IN
         IF ~output_validation.valid
         THEN Outcome(TRUE, ModelResponse(FALSE, NoData,
                                          output_validation.error))
         ELSE Outcome(TRUE, ModelResponse(TRUE, output_validation.data,
                                          "None"))

\* fetch_market_data; nothing under its try raises
fetch_market_data(agent_result) ==
    IF ~agent_result.success
    THEN Outcome(TRUE, ModelResponse(FALSE, NoData, "agent"))
    ELSE LET validation_result ==
                 BaseValidator_validate("MarketData", agent_result.data)
         IN
         IF ~validation_result.valid
         THEN Outcome(TRUE, ModelResponse(FALSE, NoData,
                                          validation_result.error))
         ELSE Outcome(TRUE, ModelResponse(TRUE, validation_result.data,
                                          "None"))

Routes == {"company_research", "industry_analysis", "market_data"}

\* the validator class each route constructs
RouteValidator(route) ==
    CASE route = "company_research" -> "CompanyValidator"
      [] route = "industry_analysis" -> "IndustryAnalysisValidator"
      [] OTHER -> "MarketDataValidator"

\* the results an agent can return: a failure, or a success with any data,
\* JSON null included
AgentResults(route) ==
    {NoAgentResult}
      \cup { AgentResult(TRUE, d) :
               d \in ValidatorInputs(RouteValidator(route)) \cup {NoData} }

\* IndustryAnalysisRequest.model_dump(): the request passed the type checks
\* of the framework
IndustryAnalysisRequests ==
    { Payload("dict", <<[name |-> JStr("Acme"), industry |-> JStr("tech"),
                         description |-> JStr("d"), products |-> p,
                         headquarters |-> JStr("hq"),
                         sources |-> OneSource]>>) :
        p \in {JList(<<>>), JList(<<"p">>)} }

\* a request before its route runs
Request(route, mcp_up, input) ==
    [route |-> route, mcp_up |-> mcp_up, input |-> input, pc |-> "received",
     agent_result |-> NoAgentResult, ran |-> FALSE, response |-> NoResponse]

NoRequest == [Request("none", TRUE, NoData) EXCEPT !.pc = "idle"]

ApiIdle == api = NoRequest

(***************************************************************************)
(* run_linear_pipeline, one action per agent call                          *)
(***************************************************************************)
Init ==
    /\ pc = "CompanyResearch"
    /\ company_name \in CompanyNames
    /\ selected_domain \in Overrides
    /\ invoked = <<>>
    /\ raw = [s \in Stages |-> Pending]
    /\ out = [s \in Stages |-> Unset]
    /\ domain = NoDomain
    /\ result = NoAgentResult
    /\ ValidationIdle
    /\ RunnerIdle
    /\ ConcurrentIdle
    /\ CallIdle
    /\ ApiIdle

\* the part every one of the first six calls shares: call through safe_run,
\* keep the payload, return the stage's failure when the payload is None
GatedCall(stage, input, resp) ==
    LET o == safe_run(resp) IN
    /\ invoked' = Append(invoked, input)
    /\ raw' = [raw EXCEPT ![stage] = resp]
    /\ out' = [out EXCEPT ![stage] = o]
    /\ result' = IF Gate(stage, o) = "returned"
                 THEN Failure(FailureMessage(stage)) ELSE result

CompanyResearch ==
    /\ pc = "CompanyResearch"
    /\ \E resp \in AgentResponses("CompanyResearch") :
         /\ GatedCall("CompanyResearch",
                      Call("CompanyResearch", company_name, NoDomain, <<>>), resp)
         /\ pc' = Gate("CompanyResearch", safe_run(resp))
    /\ UNCHANGED <<company_name, selected_domain, domain>>
    /\ UNCHANGED <<validationVars, runnerVars, concurrentVars, callVars, apiVars>>

IndustryAnalysis ==
    /\ pc = "IndustryAnalysis"
    /\ \E resp \in AgentResponses("IndustryAnalysis") :
         LET o == safe_run(resp)
             domains == GetDomains(o)
         IN
         /\ invoked' = Append(invoked,
                Call("IndustryAnalysis", "", NoDomain, <<out["CompanyResearch"]>>))
         /\ raw' = [raw EXCEPT !["IndustryAnalysis"] = resp]
         /\ out' = [out EXCEPT !["IndustryAnalysis"] = o]
         /\ IF Gate("IndustryAnalysis", o) = "returned"
            THEN /\ pc' = "returned"
                 /\ result' = Failure(FailureMessage("IndustryAnalysis"))
                 /\ UNCHANGED domain
            ELSE IF o.tag # "dict"
            THEN \* .get on a list or a str: AttributeError, outside any try
                 /\ pc' = "raised"
                 /\ UNCHANGED <<result, domain>>
            ELSE IF domains = <<>>
            THEN /\ pc' = "returned"
                 /\ result' = Failure("No domains found.")
                 /\ UNCHANGED domain
            ELSE /\ pc' = Gate("IndustryAnalysis", o)
                 /\ domain' = SelectDomain(selected_domain, domains)
                 /\ UNCHANGED result
    /\ UNCHANGED <<company_name, selected_domain>>
    /\ UNCHANGED <<validationVars, runnerVars, concurrentVars, callVars, apiVars>>

MarketData ==
    /\ pc = "MarketData"
    /\ \E resp \in AgentResponses("MarketData") :
         /\ GatedCall("MarketData", Call("MarketData", "", domain, <<>>), resp)
         /\ pc' = Gate("MarketData", safe_run(resp))
    /\ UNCHANGED <<company_name, selected_domain, domain>>
    /\ UNCHANGED <<validationVars, runnerVars, concurrentVars, callVars, apiVars>>

CompetitiveLandscape ==
    /\ pc = "CompetitiveLandscape"
    /\ \E resp \in AgentResponses("CompetitiveLandscape") :
         /\ GatedCall("CompetitiveLandscape",
                      Call("CompetitiveLandscape", "", domain, <<>>), resp)
         /\ pc' = Gate("CompetitiveLandscape", safe_run(resp))
    /\ UNCHANGED <<company_name, selected_domain, domain>>
    /\ UNCHANGED <<validationVars, runnerVars, concurrentVars, callVars, apiVars>>

GapAnalysis ==
    /\ pc = "GapAnalysis"
    /\ \E resp \in AgentResponses("GapAnalysis") :
         /\ GatedCall("GapAnalysis",
                      Call("GapAnalysis", "", NoDomain,
                           <<out["MarketData"], out["CompetitiveLandscape"]>>),
                      resp)
         /\ pc' = Gate("GapAnalysis", safe_run(resp))
    /\ UNCHANGED <<company_name, selected_domain, domain>>
    /\ UNCHANGED <<validationVars, runnerVars, concurrentVars, callVars, apiVars>>

OpportunityAnalysis ==
    /\ pc = "OpportunityAnalysis"
    /\ \E resp \in AgentResponses("OpportunityAnalysis") :
         /\ GatedCall("OpportunityAnalysis",
                      Call("OpportunityAnalysis", "", NoDomain,
                           <<out["GapAnalysis"]>>),
                      resp)
         /\ pc' = Gate("OpportunityAnalysis", safe_run(resp))
    /\ UNCHANGED <<company_name, selected_domain, domain>>
    /\ UNCHANGED <<validationVars, runnerVars, concurrentVars, callVars, apiVars>>

\* report_output.get("data", report_output)
FinalData(resp) == IF "data" \in resp.val.keys THEN resp.data ELSE resp.val

\* the body of the try block around the report synthesis call
Synthesize(resp) ==
    IF resp.kind = "raise" THEN SynthesisFailure("agent exception")
    ELSE IF resp.kind = "nondict" THEN SynthesisFailure("AttributeError")
    ELSE IF FinalData(resp).tag # "dict" THEN SynthesisFailure("TypeError")
    ELSE IF ~(ReportKeys \subseteq FinalData(resp).keys)
    THEN SynthesisFailure("KeyError")
    ELSE Success(FinalData(resp))

ReportSynthesis ==
    /\ pc = "ReportSynthesis"
    /\ \E resp \in AgentResponses("ReportSynthesis") :
         /\ invoked' = Append(invoked,
                Call("ReportSynthesis", "", NoDomain,
                     << out["CompanyResearch"], out["IndustryAnalysis"],
                        out["MarketData"], out["CompetitiveLandscape"],
                        out["GapAnalysis"], out["OpportunityAnalysis"] >>))
         /\ raw' = [raw EXCEPT !["ReportSynthesis"] = resp]
         /\ out' = [out EXCEPT !["ReportSynthesis"] =
                      IF resp.kind = "dict" THEN FinalData(resp) ELSE None]
         /\ result' = Synthesize(resp)
         /\ pc' = "returned"
    /\ UNCHANGED <<company_name, selected_domain, domain>>
    /\ UNCHANGED <<validationVars, runnerVars, concurrentVars, callVars, apiVars>>

Next ==
    \/ CompanyResearch
    \/ IndustryAnalysis
    \/ MarketData
    \/ CompetitiveLandscape
    \/ GapAnalysis
    \/ OpportunityAnalysis
    \/ ReportSynthesis

Spec == Init /\ [][Next]_vars

(***************************************************************************)
(* A validator applied to an input, and again to the data it returned      *)
(***************************************************************************)
\* no pipeline run is in progress
PipelineIdle ==
    /\ pc = "idle"
    /\ company_name \in CompanyNames
    /\ selected_domain = NoDomain
    /\ invoked = <<>>
    /\ raw = [s \in Stages |-> Pending]
    /\ out = [s \in Stages |-> Unset]
    /\ domain = NoDomain
    /\ result = NoAgentResult

InitValidate ==
    /\ PipelineIdle
    /\ RunnerIdle
    /\ ConcurrentIdle
    /\ CallIdle
    /\ ApiIdle
    /\ v_contract \in DOMAIN Contracts
    /\ v_input \in ValidatorInputs(v_contract)
    /\ v_result = NotValidated
    /\ v_first = NoData

ValidateInput ==
    /\ v_result = NotValidated
    /\ v_result' = Validate(v_contract, v_input)
    /\ UNCHANGED <<v_contract, v_input, v_first>>
    /\ UNCHANGED <<pipelineVars, runnerVars, concurrentVars, callVars, apiVars>>

\* the caller validates the data of a valid result once more
Revalidate ==
    /\ v_result.valid
    /\ v_first = NoData
    /\ v_first' = v_result.data
    /\ v_input' = v_result.data
    /\ v_result' = Validate(v_contract, v_result.data)
    /\ UNCHANGED v_contract
    /\ UNCHANGED <<pipelineVars, runnerVars, concurrentVars, callVars, apiVars>>

NextValidate ==
    \/ ValidateInput
    \/ Revalidate

SpecValidate == InitValidate /\ [][NextValidate]_vars

(***************************************************************************)
(* The handlers of IndividualAgentRunner.run.  While the chain loop is     *)
(* between two agents no other handler runs.                               *)
(***************************************************************************)
InitRunner ==
    /\ PipelineIdle
    /\ ValidationIdle
    /\ ConcurrentIdle
    /\ CallIdle
    /\ ApiIdle
    /\ RunnerIdle

\* _move_to_next_agent
MoveToNextAgent ==
    /\ handler.pos = 0
    /\ runner' = move_to_next_agent(runner)
    /\ UNCHANGED <<handler, selection, lines>>
    /\ UNCHANGED <<pipelineVars, validationVars, concurrentVars, callVars, apiVars>>

\* _move_to_previous_agent
MoveToPreviousAgent ==
    /\ handler.pos = 0
    /\ runner' = move_to_previous_agent(runner)
    /\ UNCHANGED <<handler, selection, lines>>
    /\ UNCHANGED <<pipelineVars, validationVars, concurrentVars, callVars, apiVars>>

\* _switch_tab_next
SwitchTabNext ==
    /\ handler.pos = 0
    /\ runner' = switch_tab_next(runner)
    /\ UNCHANGED <<handler, selection, lines>>
    /\ UNCHANGED <<pipelineVars, validationVars, concurrentVars, callVars, apiVars>>

\* _switch_tab_prev
SwitchTabPrev ==
    /\ handler.pos = 0
    /\ runner' = switch_tab_prev(runner)
    /\ UNCHANGED <<handler, selection, lines>>
    /\ UNCHANGED <<pipelineVars, validationVars, concurrentVars, callVars, apiVars>>

\* _run_current_agent
RunCurrentAgent ==
    /\ handler.pos = 0
    /\ LET stage == AgentAt(runner.current_agent_index) IN
       \E company \in PromptedCompany(stage),
          use_selected \in PromptedConfirm(runner, stage),
          typed \in PromptedDomain(stage), resp \in AgentResponses(stage) :
         LET input == collect_agent_input(runner, stage, company,
                                          use_selected, typed)
             output == simulate_agent_execution(runner, stage, input, resp)
             valid == runner_validate_output(stage, output)
         IN
         /\ runner' = Store(runner, stage, output, valid)
         /\ \E n \in IF valid THEN StyledLines(stage) ELSE {lines[stage]} :
              lines' = [lines EXCEPT ![stage] = n]
         /\ handler' = HandlerState("run", 0,
                           <<Execution(runner, stage, input, output)>>,
                           runner.agent_outputs)
         /\ UNCHANGED selection
    /\ UNCHANGED <<pipelineVars, validationVars, concurrentVars, callVars, apiVars>>

\* the agent_input the chain loop builds for a stage
ChainInput(r, stage, company, typed) ==
    CASE stage = "CompanyResearch" -> AgentInput(company, NoDomain)
      [] stage = "MarketData" ->
           AgentInput("", IF Truthy(r.selected_domain)
                          THEN r.selected_domain ELSE typed)
      [] OTHER -> AgentInput("", NoDomain)

\* _run_agent_chain, one turn of its loop: the first turn when no chain is
\* in progress, the turn of agent handler.pos otherwise
RunAgentChain ==
    LET i == IF handler.pos = 0 THEN 1 ELSE handler.pos
        stage == StageOrder[i]
        log == IF handler.pos = 0 THEN <<>> ELSE handler.log
        before == IF handler.pos = 0 THEN runner.agent_outputs
                  ELSE handler.before
        r == [runner EXCEPT !.current_agent_index = i - 1]
    IN
    /\ \E company \in PromptedCompany(stage), typed \in PromptedDomain(stage),
          resp \in AgentResponses(stage) :
         LET input == ChainInput(r, stage, company, typed)
             output == simulate_agent_execution(r, stage, input, resp)
             valid == runner_validate_output(stage, output)
             stored == Store(r, stage, output, valid)
             asked == valid /\ stage = "IndustryAnalysis"
         IN
         /\ \E answer \in IF asked THEN Answers(output.data) ELSE {0} :
              /\ runner' = IF asked
                            THEN handle_domain_selection(stored, output.data,
                                                         PromptIndex(answer))
                            ELSE stored
              /\ selection' = IF asked /\ DataTruthy(output.data)
                               THEN [offered |-> output.data.items,
                                     answer |-> answer]
                               ELSE selection
         /\ \E n \in IF valid THEN StyledLines(stage) ELSE {lines[stage]} :
              lines' = [lines EXCEPT ![stage] = n]
         /\ handler' = HandlerState("chain", AfterGate(valid, i),
                           Append(log, Execution(r, stage, input, output)),
                           before)
    /\ UNCHANGED <<pipelineVars, validationVars, concurrentVars, callVars, apiVars>>

\* _reset_outputs
ResetOutputs ==
    /\ handler.pos = 0
    /\ runner' = [runner EXCEPT !.agent_outputs = [s \in Stages |-> Pending],
                                !.selected_domain = NoDomain]
    /\ handler' = HandlerState("reset", 0, <<>>, runner.agent_outputs)
    /\ lines' = NoLines
    /\ UNCHANGED selection
    /\ UNCHANGED <<pipelineVars, validationVars, concurrentVars, callVars, apiVars>>

\* _scroll_output_up
ScrollOutputUp ==
    /\ handler.pos = 0
    /\ runner' = scroll_output_up(runner)
    /\ UNCHANGED <<handler, selection, lines>>
    /\ UNCHANGED <<pipelineVars, validationVars, concurrentVars, callVars, apiVars>>

\* _scroll_output_down
ScrollOutputDown ==
    /\ handler.pos = 0
    /\ runner' = scroll_output_down(runner,
                                    lines[AgentAt(runner.current_agent_index)])
    /\ UNCHANGED <<handler, selection, lines>>
    /\ UNCHANGED <<pipelineVars, validationVars, concurrentVars, callVars, apiVars>>

\* _show_full_output
ShowFullOutput ==
    /\ handler.pos = 0
    /\ runner' = show_full_output(runner)
    /\ UNCHANGED <<handler, selection, lines>>
    /\ UNCHANGED <<pipelineVars, validationVars, concurrentVars, callVars, apiVars>>

NextRunner ==
    \/ MoveToNextAgent
    \/ MoveToPreviousAgent
    \/ SwitchTabNext
    \/ SwitchTabPrev
    \/ RunCurrentAgent
    \/ RunAgentChain
    \/ ResetOutputs
    \/ ScrollOutputUp
    \/ ScrollOutputDown
    \/ ShowFullOutput

SpecRunner == InitRunner /\ [][NextRunner]_vars

(***************************************************************************)
(* The runner with _handle_domain_selection as an entry point of its own:  *)
(* the method is applied to an opportunity list, as after an Industry      *)
(* Analysis output that passed the gate, and the operator then moves       *)
(* between the agents and runs them one at a time.                         *)
(***************************************************************************)
\* the opportunity lists surfaced: none, one entry, the highest score last,
\* first, and shared by two entries
SurfacedLists ==
    {<<>>, <<Opp("A", 4)>>, <<Opp("A", 4), Opp("B", 9)>>,
     <<Opp("B", 9), Opp("A", 4)>>, <<Opp("B", 9), Opp("C", 9)>>}

\* _handle_domain_selection
HandleDomainSelection ==
    /\ handler.pos = 0
    /\ \E ds \in SurfacedLists :
         \E answer \in Answers(ListV(ds, TRUE)) :
           /\ runner' = handle_domain_selection(runner, ListV(ds, TRUE),
                                                PromptIndex(answer))
           /\ selection' = IF ds = <<>> THEN selection
                            ELSE [offered |-> ds, answer |-> answer]
           /\ handler' = HandlerState("select", 0, <<>>, runner.agent_outputs)
    /\ UNCHANGED lines
    /\ UNCHANGED <<pipelineVars, validationVars, concurrentVars, callVars, apiVars>>

NextSelection ==
    \/ HandleDomainSelection
    \/ MoveToNextAgent
    \/ MoveToPreviousAgent
    \/ RunCurrentAgent

SpecSelection == InitRunner /\ [][NextSelection]_vars

(***************************************************************************)
(* The agent calls of one run among concurrent ones                       *)
(***************************************************************************)
ConcurrentOverrides == {NoDomain, Str("X")}

\* the responses the agents give to concurrent calls: a failing and a
\* succeeding one of AgentResponses for each stage
ConcurrentResponses(stage) ==
    CASE stage = "CompanyResearch" -> {FailNoTrace, OkData(CompanyProfile)}
      [] stage = "IndustryAnalysis" ->
           {Raises,
            OkResult(DictV({"domains"}, <<Opp("A", 4)>>, FALSE)),
            OkResult(DictV({"domains"}, <<Opp("B", 9), Opp("A", 4)>>, FALSE))}
      [] stage = "MarketData" ->
           {run_market_data_agent("exception", None),
            run_market_data_agent("ok", DictV({"market_size_usd"}, <<>>, TRUE))}
      [] stage = "CompetitiveLandscape" ->
           {FailNoTrace, OkData(ListV(<<>>, TRUE))}
      [] stage = "GapAnalysis" -> {Raises, OkData(ListV(<<>>, TRUE))}
      [] stage = "OpportunityAnalysis" ->
           {FailNoTrace, OkData(ListV(<<>>, TRUE))}
      [] OTHER ->
           {FailDataNone,
            OkData(ReportV(ReportKeys, "Acme Research", FALSE)),
            Direct(ReportV(ReportKeys, "Acme Research", FALSE))}

\* the call a run makes at its current stage
RunCall(st) ==
    Call(st.pc, "", IF st.pc \in {"MarketData", "CompetitiveLandscape"}
                    THEN st.domain ELSE NoDomain, <<>>)

\* one agent call of a run and the statements up to the next call or return
StepRun(st, resp) ==
    LET stage == st.pc
        o == safe_run(resp)
        called == [st EXCEPT !.invoked = Append(@, RunCall(st)),
                             !.raw[stage] = resp,
                             !.out[stage] = o]
    IN
    IF stage = "ReportSynthesis"
    THEN [called EXCEPT !.out[stage] = IF resp.kind = "dict"
                                       THEN FinalData(resp) ELSE None,
                        !.result = Synthesize(resp),
                        !.pc = "returned"]
    ELSE IF Gate(stage, o) = "returned"
    THEN [called EXCEPT !.pc = "returned",
                        !.result = Failure(FailureMessage(stage))]
    ELSE IF stage # "IndustryAnalysis"
    THEN [called EXCEPT !.pc = Gate(stage, o)]
    ELSE IF o.tag # "dict"
    THEN [called EXCEPT !.pc = "raised"]
    ELSE IF GetDomains(o) = <<>>
    THEN [called EXCEPT !.pc = "returned",
                        !.result = Failure("No domains found.")]
    ELSE [called EXCEPT !.pc = Gate(stage, o),
                        !.domain = SelectDomain(st.selected_domain,
                                                GetDomains(o))]

\* Interleave with the domain kept in one place for all calls: a run that
\* selects its domain overwrites the domain of the others
InterleaveShared(rs, r, resp) ==
    [q \in Runs |->
        IF q = r THEN StepRun(rs[r], resp)
        ELSE IF rs[r].pc = "IndustryAnalysis"
        THEN [rs[q] EXCEPT !.domain = StepRun(rs[r], resp).domain]
        ELSE rs[q]]

\* a step of run r among the others: only the locals of r change
Interleave(rs, r, resp) == [rs EXCEPT ![r] = StepRun(rs[r], resp)]

(***************************************************************************)
(* Two calls of run_linear_pipeline, their agent calls interleaved         *)
(***************************************************************************)
InitConcurrent ==
    /\ PipelineIdle
    /\ ValidationIdle
    /\ RunnerIdle
    /\ CallIdle
    /\ ApiIdle
    /\ runs \in [Runs -> { NewRun(o) : o \in ConcurrentOverrides }]

\* the next agent call of one of the runs
RunStep ==
    /\ \E r \in Runs :
         /\ runs[r].pc \in Stages
         /\ \E resp \in ConcurrentResponses(runs[r].pc) :
              runs' = Interleave(runs, r, resp)
    /\ UNCHANGED <<pipelineVars, validationVars, runnerVars, callVars, apiVars>>

NextConcurrent == RunStep

SpecConcurrent == InitConcurrent /\ [][NextConcurrent]_vars

(***************************************************************************)
(* safe_run and the check that follows it, applied to every shape of       *)
(* response: each of the keys "result", "data" and "raw_response" absent,  *)
(* present with None, or present with a value of its own.                  *)
(***************************************************************************)
\* the stages run_linear_pipeline calls through safe_run
SafeRunStages == Stages \ {"ReportSynthesis"}

KeyStates == {"absent", "none", "value"}

\* a dict with "success" and the keys chosen; the value under "result" is a
\* dict with domains, the one under "data" a list, the one under
\* "raw_response" a str
KeyedResponse(r, d, t) ==
    Response("dict",
             DictV({"success"}
                     \cup (IF r = "absent" THEN {} ELSE {"result"})
                     \cup (IF d = "absent" THEN {} ELSE {"data"})
                     \cup (IF t = "absent" THEN {} ELSE {"raw_response"}),
                   <<>>, FALSE),
             IF r = "value" THEN DictV({"domains"}, <<Opp("A", 4)>>, FALSE)
             ELSE None,
             IF d = "value" THEN ListV(<<>>, TRUE) ELSE None,
             IF t = "value" THEN Text ELSE None,
             TRUE)

KeyedResponses ==
    { KeyedResponse(r, d, t) : r \in KeyStates, d \in KeyStates,
                               t \in KeyStates }
        \cup {Raises, NonDict}

InitSafeRun ==
    /\ PipelineIdle
    /\ ValidationIdle
    /\ RunnerIdle
    /\ ConcurrentIdle
    /\ ApiIdle
    /\ call \in { [stage |-> s, resp |-> r, payload |-> None, pc |-> s] :
                    s \in SafeRunStages, r \in KeyedResponses }

\* where run_linear_pipeline goes after x_output = safe_run(..): the return
\* of the failure of the stage when the result is None; after Industry
\* Analysis also the AttributeError of .get on a payload that is no dict and
\* the return of "No domains found."; the next call otherwise
AfterCheck(stage, o) ==
    IF Gate(stage, o) = "returned" THEN "returned"
    ELSE IF stage # "IndustryAnalysis" THEN Gate(stage, o)
    ELSE IF o.tag # "dict" THEN "raised"
    ELSE IF GetDomains(o) = <<>> THEN "no_domains"
    ELSE Gate(stage, o)

SafeRunAndCheck ==
    /\ call.pc = call.stage
    /\ call' = [call EXCEPT !.payload = safe_run(call.resp),
                            !.pc = AfterCheck(call.stage, safe_run(call.resp))]
    /\ UNCHANGED <<pipelineVars, validationVars, runnerVars, concurrentVars,
                   apiVars>>

NextSafeRun == SafeRunAndCheck

SpecSafeRun == InitSafeRun /\ [][NextSafeRun]_vars

(***************************************************************************)
(* One request to each endpoint                                            *)
(***************************************************************************)
InitApi ==
    /\ PipelineIdle
    /\ ValidationIdle
    /\ RunnerIdle
    /\ ConcurrentIdle
    /\ CallIdle
    /\ api \in { Request("company_research", m, NoData) : m \in BOOLEAN }
               \cup { Request("industry_analysis", TRUE, i) :
                        i \in IndustryAnalysisRequests }
               \cup { Request("market_data", TRUE, NoData) }

\* the route answers the request, agent_result being what the agent returns
\* when the route runs it
Answer(outcome, agent_result) ==
    /\ api' = [api EXCEPT !.pc = "answered",
                          !.ran = outcome.ran,
                          !.agent_result = IF outcome.ran THEN agent_result
                                           ELSE NoAgentResult,
                          !.response = outcome.response]
    /\ UNCHANGED <<pipelineVars, validationVars, runnerVars, concurrentVars,
                   callVars>>

ResearchCompany ==
    /\ api.route = "company_research" /\ api.pc = "received"
    /\ \E agent_result \in AgentResults(api.route) :
         Answer(research_company(api.mcp_up, agent_result), agent_result)

AnalyzeIndustryOpportunities ==
    /\ api.route = "industry_analysis" /\ api.pc = "received"
    /\ \E agent_result \in AgentResults(api.route) :
         Answer(analyze_industry_opportunities(api.input, agent_result),
                agent_result)

FetchMarketData ==
    /\ api.route = "market_data" /\ api.pc = "received"
    /\ \E agent_result \in AgentResults(api.route) :
         Answer(fetch_market_data(agent_result), agent_result)

NextApi ==
    \/ ResearchCompany
    \/ AnalyzeIndustryOpportunities
    \/ FetchMarketData

SpecApi == InitApi /\ [][NextApi]_vars

(***************************************************************************)
(* Properties                                                              *)
(***************************************************************************)
\* the stages called so far, in call order
InvokedStages == [i \in 1..Len(invoked) |-> invoked[i].stage]

WasInvoked(stage) == \E i \in 1..Len(invoked) : invoked[i].stage = stage

\* the list from which the domain is selected, once IndustryAnalysis returned
DomainsOffered == GetDomains(out["IndustryAnalysis"])

\* domain selection was reached: the IndustryAnalysis payload is a dict whose
\* "domains" list is non-empty
SelectionReached ==
    /\ WasInvoked("IndustryAnalysis")
    /\ out["IndustryAnalysis"].tag = "dict"
    /\ DomainsOffered # <<>>

\* C1: fail-fast.  Whenever the agent of a called stage failed (it raised or
\* reported success = false), that stage is the last one called and the run
\* has returned success = false.
C1_FailFast ==
    \A i \in 1..Len(invoked) :
        AgentFailed(raw[invoked[i].stage]) =>
            /\ i = Len(invoked)
            /\ pc = "returned"
            /\ ~result.success

\* C2: validation gate.  A later stage is called only if every earlier stage
\* that reported success produced output its validator accepts.
C2_ValidatedBeforeForward ==
    \A i \in 1..Len(invoked) : \A j \in 1..(i - 1) :
        raw[invoked[j].stage].success =>
            validate_output(invoked[j].stage, out[invoked[j].stage])

\* C3: no hidden failure.  For each stage called through safe_run, a failed
\* or malformed agent response reaches the orchestrator as the failed payload
\* (None), never as stage data.
C3_FailureNeverUsable ==
    \A s \in Stages \ {"ReportSynthesis"} :
        (WasInvoked(s) /\ (AgentFailed(raw[s]) \/ raw[s].kind = "nondict"))
            => IsNone(out[s])

\* C4: no exception escapes run_linear_pipeline.
C4_NoExceptionEscapes == pc # "raised"

\* the smallest index whose score equals the maximum score of the list
FirstMaxIndex(ds) ==
    CHOOSE i \in 1..Len(ds) :
        /\ \A j \in 1..Len(ds) : ds[j].score <= ds[i].score
        /\ \A j \in 1..(i - 1) : ds[j].score < ds[i].score

\* C5: default selection.  Without an override the selected domain is the
\* domain of the first opportunity that has the highest score.
C5_HighestScoreFirst ==
    (SelectionReached /\ selected_domain = NoDomain) =>
        domain.s = DomainsOffered[FirstMaxIndex(DomainsOffered)].s

\* C6 as stated: with an override string (any str, "" included) and a
\* non-empty opportunity list, the selected domain is the override.
C6_OverrideVerbatim ==
    (SelectionReached /\ selected_domain.tag = "str") =>
        domain = selected_domain

\* C6 amended: with a non-empty override string and a non-empty opportunity
\* list, the selected domain is the override, whether or not the list has it.
C6_NonEmptyOverrideVerbatim ==
    (SelectionReached /\ selected_domain.tag = "str" /\ selected_domain.s # "") =>
        domain = selected_domain

\* C6 witness: an override that no offered opportunity names was selected
C6_ForeignOverrideSelected ==
    /\ SelectionReached
    /\ selected_domain = Str("X")
    /\ \A i \in 1..Len(DomainsOffered) : DomainsOffered[i].s # "X"
    /\ domain = Str("X")
    /\ WasInvoked("MarketData")

\* IndustryAnalysis returned an empty opportunity list: under "domains" of a
\* dict payload, or as the list payload itself
YieldsEmptyList ==
    /\ WasInvoked("IndustryAnalysis")
    /\ \/ /\ out["IndustryAnalysis"].tag = "dict"
          /\ "domains" \in out["IndustryAnalysis"].keys
          /\ out["IndustryAnalysis"].items = <<>>
       \/ /\ out["IndustryAnalysis"].tag = "list"
          /\ out["IndustryAnalysis"].items = <<>>

\* C7: an empty opportunity list ends the run with the "No domains found."
\* failure, and MarketData is not called, with or without an override.
C7_EmptyListFails ==
    YieldsEmptyList =>
        /\ pc = "returned"
        /\ ~result.success
        /\ result.error = "No domains found."
        /\ ~WasInvoked("MarketData")

\* C8: every failure result has a failedStage entry and a reason string.
C8_FailureNamesStage ==
    (pc = "returned" /\ ~result.success) =>
        /\ "failedStage" \in result.keys
        /\ "error" \in result.keys
        /\ result.error # ""

\* C9: sequential fixed order.  The calls made so far are a prefix of the
\* fixed stage order, and each stage but the first was called only after
\* the stage before it had returned a payload the orchestrator accepted
\* (not None; for IndustryAnalysis also a non-empty domain list).
C9_SequentialOrder ==
    /\ Len(invoked) <= Len(StageOrder)
    /\ \A i \in 1..Len(invoked) : invoked[i].stage = StageOrder[i]
    /\ \A i \in 2..Len(invoked) :
         /\ raw[StageOrder[i - 1]] # Pending
         /\ out[StageOrder[i - 1]] # Unset
         /\ ~IsNone(out[StageOrder[i - 1]])
    /\ WasInvoked("MarketData") => SelectionReached

\* C9 witness: a run that called all seven stages and returned success
C9_AllSevenCalled ==
    /\ pc = "returned"
    /\ result.success
    /\ InvokedStages = StageOrder

\* C10: no retry.  No stage occurs twice in the call log.
C10_AtMostOnce ==
    \A i, j \in 1..Len(invoked) :
        invoked[i].stage = invoked[j].stage => i = j

\* C10 witness: a run that returned a stage failure after a failed stage
C10_FailedStageNotRetried ==
    /\ pc = "returned"
    /\ ~result.success
    /\ Len(invoked) \in 1..(Len(StageOrder) - 1)
    /\ IsNone(out[invoked[Len(invoked)].stage])
    /\ result.error = FailureMessage(invoked[Len(invoked)].stage)

DomainStages == {"MarketData", "CompetitiveLandscape"}

\* C11: one domain per run.  Every call of MarketData and CompetitiveLandscape
\* made so far received the same domain, which is the run's selected domain.
C11_SameDomain ==
    \A i \in 1..Len(invoked) :
        invoked[i].stage \in DomainStages =>
            /\ domain # NoDomain
            /\ invoked[i].domain = domain
            /\ \A j \in 1..Len(invoked) :
                 invoked[j].stage \in DomainStages =>
                     invoked[j].domain = invoked[i].domain

\* C11 witness: both stages were called, with an override no entry names
C11_BothCalledWithDomain ==
    /\ WasInvoked("MarketData")
    /\ WasInvoked("CompetitiveLandscape")
    /\ selected_domain = Str("X")
    /\ invoked[3].domain = Str("X")
    /\ invoked[4].domain = Str("X")

\* C12: aggregation.  A success result carries the report title produced by
\* ReportSynthesis and a trail with the selected domain and the
\* intermediate entities.
C12_SuccessCarriesTrail ==
    (pc = "returned" /\ result.success) =>
        /\ result.report_title = out["ReportSynthesis"].title
        /\ "trail" \in result.keys

\* a stage result is well formed: success with data and no error, or
\* failure with an error and no data
WellFormedResult(keys, success, data) ==
    \/ success /\ "data" \in keys /\ ~IsNone(data) /\ "error" \notin keys
    \/ ~success /\ "error" \in keys /\ ("data" \in keys => IsNone(data))

\* C13: stage-result shape.  What run_market_data_agent returns, and what
\* safe_run hands to the orchestrator for each called stage (read as success
\* = payload not None, data = the payload), is well formed.
C13_ExactlyOneForm ==
    /\ WasInvoked("MarketData") =>
         WellFormedResult(raw["MarketData"].val.keys,
                          raw["MarketData"].success, raw["MarketData"].data)
    /\ \A s \in Stages \ {"ReportSynthesis"} :
         WasInvoked(s) =>
             WellFormedResult(
                 (safe_run_keys(raw[s]) \ {"result"}) \cup {"data"},
                 ~IsNone(out[s]), out[s])

\* the run is over: it returned or an exception left it
Terminal == pc \in {"returned", "raised"}

\* C15: terminal outcomes.  A run that is over has returned; success = true
\* only after all seven stages were called and none of their agents failed;
\* success = false only with the last call being the first failed agent.
C15_DoneOrFailed ==
    Terminal =>
        /\ pc = "returned"
        /\ result.success =>
             /\ InvokedStages = StageOrder
             /\ \A s \in Stages : ~AgentFailed(raw[s]) /\ raw[s].kind = "dict"
        /\ ~result.success =>
             \A i \in 1..(Len(invoked) - 1) : ~AgentFailed(raw[invoked[i].stage])

(***************************************************************************)
(* Properties of the validators                                            *)
(***************************************************************************)
Validated == v_contract \in DOMAIN Contracts /\ v_result # NotValidated

\* the input has the shape the contract is about: a list for a list
\* contract, a dict for the others
ShapedInput ==
    v_input.tag = IF Contracts[v_contract].list THEN "list" ELSE "dict"

Levels == {"high", "medium", "low"}

\* the well typed fields of a record whose value is outside the range the
\* contract documents for it
OutOfRange(model, rec) ==
    { f \in DOMAIN rec \cap DOMAIN Schema(model) :
        /\ Accepts(Schema(model)[f], rec[f])
        /\ CASE model = "IndustryOpportunity" /\ f = "score" ->
                  rec[f].n \notin 0..10
             [] model = "CompetitiveLandscape" /\ f = "market_share" ->
                  rec[f].n \notin 0..10
             [] model = "MarketData" /\ f = "market_size_usd" ->
                  rec[f].n < 0
             [] model = "MarketGap" /\ f = "impact" ->
                  rec[f].s \notin Levels
             [] model = "Opportunity" /\ f = "priority" ->
                  rec[f].s \notin Levels
             [] OTHER -> FALSE }

\* C17: a validated input holding a value outside its contract's range
\* (score or market share outside [0,1], negative market size, impact or
\* priority other than high, medium, low) is rejected, and the error names
\* the offending field.
C17_ConstraintsEnforced ==
    (Validated /\ ShapedInput) =>
        \A i \in 1..Len(v_input.items) :
            \A f \in OutOfRange(Contracts[v_contract].model, v_input.items[i]) :
                /\ ~v_result.valid
                /\ \E e \in v_result.errors : e[2] = f

\* a Company record with its six fields, each of its annotated type
ValidCompany(rec) ==
    /\ {"name", "industry", "description", "products", "headquarters",
        "sources"} \subseteq DOMAIN rec
    /\ \A f \in {"name", "industry", "description", "headquarters"} :
           rec[f].t = "str"
    /\ \A f \in {"products", "sources"} : rec[f].t = "list"

C19_AllViolationsEnumerated ==
    (Validated /\ ShapedInput /\ ~v_result.valid) =>
        v_result.errors =
            UNION { { <<i, f>> : f \in Violations(Contracts[v_contract].model,
                                                 v_input.items[i]) } :
                    i \in 1..Len(v_input.items) }

(***************************************************************************)
(* Properties of the interactive runner                                    *)
(***************************************************************************)
\* C20: a chain run executes the stages in the order of the agent list and
\* stops at the first stage whose result fails the gate: no stage is
\* executed after a failing one, and when the last executed stage failed
\* the loop is over and every later stage's stored output is what it was
\* when the chain started.
C20_ChainStopsAtFirstFailure ==
    handler.name = "chain" =>
        /\ \A k \in 1..Len(handler.log) : handler.log[k].stage = StageOrder[k]
        /\ \A k \in 1..(Len(handler.log) - 1) : handler.log[k].valid
        /\ (handler.log # <<>> /\ ~handler.log[Len(handler.log)].valid) =>
              /\ handler.pos = 0
              /\ \A j \in (Len(handler.log) + 1)..Len(StageOrder) :
                     runner.agent_outputs[StageOrder[j]] =
                         handler.before[StageOrder[j]]

\* a chain run called the first agent, its result failed the gate, and the
\* loop ended there, a Market Data output stored earlier still in place
C20_ChainStoppedAtFirstStage ==
    /\ handler.name = "chain"
    /\ handler.pos = 0
    /\ Len(handler.log) = 1
    /\ handler.log[1].called
    /\ ~handler.log[1].valid
    /\ runner.agent_outputs["MarketData"].kind = "dict"
    /\ runner.agent_outputs["IndustryAnalysis"].kind = "pending"

(***************************************************************************)
(* Properties of concurrent runs                                           *)
(***************************************************************************)
\* a call running alone and getting the given responses, as far as the
\* responses go
RECURSIVE RunAlone(_, _)
RunAlone(st, responses) ==
    IF st.pc \notin Stages \/ responses[st.pc].kind = "pending" THEN st
    ELSE RunAlone(StepRun(st, responses[st.pc]), responses)

Upstream(stage) ==
    CASE stage = "IndustryAnalysis" -> {"CompanyResearch"}
      [] stage = "GapAnalysis" ->
           {"CompanyResearch", "CompetitiveLandscape", "MarketData"}
      [] stage = "OpportunityAnalysis" -> {"GapAnalysis"}
      [] stage = "ReportSynthesis" -> Stages \ {"ReportSynthesis"}
      [] OTHER -> {}

\* some input of the execution is at hand: a company name or a domain the
\* operator typed, the selected domain, or the stored data of at least one
\* of the stages it is run on
SomeInputAvailable(e) ==
    CASE e.stage = "CompanyResearch" -> e.input.company_name # ""
      [] e.stage \in {"MarketData", "CompetitiveLandscape"} ->
           Truthy(e.input.domain) \/ Truthy(e.selected_domain)
      [] OTHER -> e.upstream \cap Upstream(e.stage) # {}

\* C21: a stage with none of its input at hand, neither typed by the
\* operator nor stored by an upstream stage, is not run: its backing agent
\* is not called.
C21_NoInputNoCall ==
    \A k \in 1..Len(handler.log) :
        ~SomeInputAvailable(handler.log[k]) => ~handler.log[k].called

\* the run handler executed Market Data on a domain the operator typed
TypedDomain(e) == e.stage = "MarketData" /\ Truthy(e.input.domain)

SelectionMade == handler.name = "select" /\ selection.offered # <<>>

C30_NavigationBounded ==
    /\ runner.current_agent_index \in 0..6
    /\ runner.current_tab \in {"input", "output", "description"}
    /\ runner.current_agent_index = 6 => move_to_next_agent(runner) = runner
    /\ runner.current_agent_index = 0 =>
           move_to_previous_agent(runner) = runner
    /\ switch_tab_prev(switch_tab_next(runner)) = runner

\* the operator advanced to the last stage and switched to the last tab
C30_LastStageLastTab ==
    /\ runner.current_agent_index = 6
    /\ runner.current_tab = "description"

\* C24: _reset_outputs empties the stage-output map, clears the selected
\* domain and the scroll offset, and leaves the current stage index and the
\* current tab as they were.
C24_ResetClears ==
    [][ResetOutputs =>
          /\ runner'.agent_outputs = [s \in Stages |-> Pending]
          /\ runner'.selected_domain = NoDomain
          /\ runner'.output_scroll_offset = 0
          /\ runner'.current_agent_index = runner.current_agent_index
          /\ runner'.current_tab = runner.current_tab]_vars

\* the output tab shows the styled text of the current agent
OutputShown ==
    /\ runner.current_tab = "output"
    /\ Displayable(runner, AgentAt(runner.current_agent_index))

\* C25: the window displayed is a contiguous, in-order slice of the
\* rendered lines that starts at an offset between 0 and
\* max(0, total_lines - lines_per_page).
C25_WindowInRange ==
    LET total == lines[AgentAt(runner.current_agent_index)]
        w == Window(runner, total)
    IN OutputShown =>
         /\ w.first \in 0..Max(0, total - LinesPerPage)
         /\ w.first <= w.last
         /\ w.last = Min(w.first + LinesPerPage, total)

\* C26: every entry of agent_outputs passed the gate: success is true, data
\* is not None and the validator of the stage reports it valid.
C26_StoredPassedGate ==
    \A s \in Stages :
        runner.agent_outputs[s] # Pending =>
            /\ GetSuccess(runner.agent_outputs[s])
            /\ ~IsNone(runner.agent_outputs[s].data)
            /\ runner_validate_output(s, runner.agent_outputs[s])

\* an output is stored and the operator has moved on to another handler
C26_OutputStored ==
    /\ handler.name = "run"
    /\ handler.log[1].valid
    /\ runner.agent_outputs[handler.log[1].stage] # Pending

\* the single run that happened last failed the gate
RunFailedGate == handler.name = "run" /\ ~handler.log[1].valid

\* C27: a single run whose result fails the gate leaves agent_outputs and
\* selected_domain unchanged: the output stored earlier for the stage and the
\* outputs of the other stages are retained.
C27_FailedRunKeepsOutputs ==
    RunFailedGate =>
        /\ runner.agent_outputs = handler.before
        /\ runner.selected_domain = handler.log[1].selected_domain

\* a run failed the gate at a stage that had an output stored, with the
\* output of another stage stored as well
C27_FailedRerun ==
    /\ RunFailedGate
    /\ handler.before[handler.log[1].stage] # Pending
    /\ \E s \in Stages \ {handler.log[1].stage} : handler.before[s] # Pending

\* safe_run was applied to the response and its result checked
Checked == call.stage \in SafeRunStages /\ call.pc # call.stage

\* the keys of the response, none for a response that is not a dict
CallKeys == IF call.resp.kind = "dict" THEN call.resp.val.keys ELSE {}

\* C28: the stage payload is the value under "result" if the key is present,
\* else the value under "data", else the value under "raw_response", else
\* the whole response; the orchestrator returns the failure of the stage
\* exactly when the payload is None.
C28_KeyPrecedence ==
    Checked =>
        /\ "result" \in CallKeys => call.payload = call.resp.result
        /\ ("result" \notin CallKeys /\ "data" \in CallKeys) =>
               call.payload = call.resp.data
        /\ ({"result", "data"} \cap CallKeys = {}
              /\ "raw_response" \in CallKeys) =>
               call.payload = call.resp.raw_response
        /\ ({"result", "data", "raw_response"} \cap CallKeys = {}
              /\ call.resp.kind = "dict") => call.payload = call.resp.val
        /\ call.pc = "returned" <=> IsNone(call.payload)

\* a response that carries "result", "data" and "raw_response" with three
\* different values was normalised and passed on
C28_AllKeysPresent ==
    /\ Checked
    /\ {"result", "data", "raw_response"} \subseteq CallKeys
    /\ call.resp.result # call.resp.data
    /\ ~IsNone(call.resp.result)
    /\ ~IsNone(call.resp.data)
    /\ call.pc # "returned"

Answered == api.pc = "answered"

\* the agent reported success and its data passes the output validation of
\* the route
PassedGate ==
    /\ api.ran
    /\ api.agent_result.success
    /\ Validate(RouteValidator(api.route), api.agent_result.data).valid

\* success is true only after the agent succeeded and its data passed
\* validation, and the data returned is then the normalised data
SuccessOnlyThroughGate ==
    (api.response.body = "model" /\ api.response.success) =>
        /\ PassedGate
        /\ api.response.data =
              Validate(RouteValidator(api.route), api.agent_result.data).data

\* a response of the response model with success false, no data, an error
FailureResponse ==
    /\ api.response.body = "model"
    /\ ~api.response.success
    /\ api.response.data = NoData
    /\ api.response.error # "None"

\* C29 as stated: success is true only through the gate, and in every other
\* case the response has success false, no data and an error.
C29_EveryOtherCaseFails ==
    Answered =>
        /\ SuccessOnlyThroughGate
        /\ ~PassedGate => FailureResponse

\* C29: success is true only through the gate; when the agent was run and
\* the gate was not passed, or the input of the industry endpoint is
\* invalid, the response has success false, no data and an error; the
\* company endpoint answers HTTP 503 without running the agent when the MCP
\* server is not available.
C29_GateWhenAgentRan ==
    Answered =>
        /\ SuccessOnlyThroughGate
        /\ PassedGate => api.response.success
        /\ (~PassedGate /\ (api.ran \/ api.route # "company_research"))
              => FailureResponse
        /\ (api.route = "company_research" /\ ~api.mcp_up) =>
              (~api.ran /\ api.response = HTTPException(503))

\* the company endpoint returned normalised data that differs from what the
\* agent sent
C29_NormalisedData ==
    /\ Answered
    /\ api.route = "company_research"
    /\ api.response.success
    /\ api.response.data # api.agent_result.data

====
